---- MODULE Spec2Model ----
(***************************************************************************)
(* Receipt processor (solution.go): validateReceipt, calculatePoints,      *)
(* extractUUID and the two HTTP handlers over the in-memory maps           *)
(* receipts / points guarded by one sync.Mutex.                            *)
(*                                                                         *)
(* Go strings are modelled as sequences of one-character strings, so that  *)
(* the regular expressions, time.Parse, strings.Split, strconv.Atoi and    *)
(* strconv.ParseFloat are computed character by character.                 *)
(***************************************************************************)
EXTENDS Integers, Sequences, FiniteSets, TLC

VARIABLES
    \* ---- the service (Spec, FairSpec) ----
    points,     \* var points   map[string]int      (solution.go:39)
    receipts,   \* var receipts map[string]Receipt  (solution.go:38)
    mutex,      \* var mutex sync.Mutex: 0 when free, else the holding request
    pc,         \* position of each request's handler goroutine
    input,      \* what each request carries: a decoded body or a URL path
    rid,        \* the handler's local id (uuid.New() or extractUUID)
    score,      \* processReceiptHandler's value of calculatePoints(receipt)
    found,      \* getPointsHandler's locals "p, exists" after the map read
    resp,       \* the response each request received
    raced,      \* requests whose unlocked map write overlapped another access
    crashed,    \* the Go runtime threw "concurrent map writes/read and write"
    \* ---- one validateReceipt + calculatePoints run (ScoreSpec) ----
    rcpt,       \* the receipt under validation and scoring
    ph,         \* position inside validateReceipt / calculatePoints
    acc,        \* calculatePoints' local "points" accumulator
    idx         \* index of the item the range loop is at

svcVars == <<points, receipts, mutex, pc, input, rid, score, found, resp, raced,
            crashed>>
runVars == <<rcpt, ph, acc, idx>>
vars == <<points, receipts, mutex, pc, input, rid, score, found, resp, raced,
         crashed, rcpt, ph, acc, idx>>

(***************************************************************************)
(* Bounds                                                                  *)
(***************************************************************************)
\* number of HTTP requests served concurrently
MaxReq == 2
\* longest item list of a scored receipt
MaxItems == 2

(***************************************************************************)
(* Characters                                                              *)
(***************************************************************************)
Digits == {"0", "1", "2", "3", "4", "5", "6", "7", "8", "9"}
Lower == {"a", "b", "c", "d", "e", "f", "g", "h", "i", "j", "k", "l", "m",
          "n", "o", "p", "q", "r", "s", "t", "u", "v", "w", "x", "y", "z"}
Upper == {"A", "B", "C", "D", "E", "F", "G", "H", "I", "J", "K", "L", "M",
          "N", "O", "P", "Q", "R", "S", "T", "U", "V", "W", "X", "Y", "Z"}
\* regexp class [a-zA-Z0-9]
AlNum == Digits \cup Lower \cup Upper
\* regexp class \w
WordChars == AlNum \cup {"_"}
\* regexp class \s: [\t\n\f\r ]; all of them are trimmed by strings.TrimSpace
SpaceChars == {" ", "\t", "\n", "\f", "\r"}
\* regexp class [a-f0-9\-]
HexDash == Digits \cup {"a", "b", "c", "d", "e", "f", "-"}

DigitSeq == <<"0", "1", "2", "3", "4", "5", "6", "7", "8", "9">>
DigitVal(c) == (CHOOSE n \in 1..10 : DigitSeq[n] = c) - 1

isDigit(s, i) == i <= Len(s) /\ s[i] \in Digits

AllIn(s, class) == \A i \in 1..Len(s) : s[i] \in class

Drop(s, n) == SubSeq(s, n + 1, Len(s))

HasPrefixAt(s, i, lit) ==
    /\ i + Len(lit) - 1 <= Len(s)
    /\ \A k \in 1..Len(lit) : s[i + k - 1] = lit[k]

RECURSIVE DigitsToNat(_)
DigitsToNat(s) ==
    IF s = <<>> THEN 0
    ELSE 10 * DigitsToNat(SubSeq(s, 1, Len(s) - 1)) + DigitVal(s[Len(s)])

(***************************************************************************)
(* Library functions used by the program                                   *)
(***************************************************************************)
\* strconv.Atoi with the error dropped ("day, _ := strconv.Atoi(..)"):
\* an optional sign and decimal digits, 0 on a syntax error
Atoi(s) ==
    LET signed == s # <<>> /\ s[1] \in {"+", "-"}
        body == IF signed THEN Drop(s, 1) ELSE s
    IN  IF body = <<>> \/ ~AllIn(body, Digits) THEN 0
        ELSE IF signed /\ s[1] = "-" THEN 0 - DigitsToNat(body)
        ELSE DigitsToNat(body)

\* strings.Split(s, sep) for a one-character separator
RECURSIVE Split(_, _)
Split(s, sep) ==
    IF \A i \in 1..Len(s) : s[i] # sep THEN <<s>>
    ELSE LET i == CHOOSE j \in 1..Len(s) :
                      s[j] = sep /\ \A k \in 1..(j - 1) : s[k] # sep
         IN  <<SubSeq(s, 1, i - 1)>> \o Split(Drop(s, i), sep)

\* strings.TrimSpace
RECURSIVE TrimSpace(_)
TrimSpace(s) ==
    IF s = <<>> THEN s
    ELSE IF s[1] \in SpaceChars THEN TrimSpace(Drop(s, 1))
    ELSE IF s[Len(s)] \in SpaceChars THEN TrimSpace(SubSeq(s, 1, Len(s) - 1))
    ELSE s

\* time.getnum: one or two leading digits; with fixed, exactly two
getnum(s, fixed) ==
    IF ~isDigit(s, 1) THEN [ok |-> FALSE, n |-> 0, rest |-> s]
    ELSE IF ~isDigit(s, 2)
         THEN IF fixed THEN [ok |-> FALSE, n |-> 0, rest |-> s]
              ELSE [ok |-> TRUE, n |-> DigitVal(s[1]), rest |-> Drop(s, 1)]
    ELSE [ok |-> TRUE, n |-> 10 * DigitVal(s[1]) + DigitVal(s[2]),
          rest |-> Drop(s, 2)]

\* time.daysIn
daysIn(month, year) ==
    IF month = 2
    THEN IF year % 4 = 0 /\ (year % 100 # 0 \/ year % 400 = 0) THEN 29 ELSE 28
    ELSE IF month \in {4, 6, 9, 11} THEN 30 ELSE 31

\* time.Parse("2006-01-02", s) succeeds: a four-digit year, "-", a two-digit
\* month 01..12, "-", a two-digit day within the month, and no text after it
ParseDateOK(s) ==
    /\ Len(s) >= 4
    /\ AllIn(SubSeq(s, 1, 4), Digits)
    /\ LET year == DigitsToNat(SubSeq(s, 1, 4))
           r1 == Drop(s, 4)
       IN  /\ HasPrefixAt(r1, 1, <<"-">>)
           /\ LET m == getnum(Drop(r1, 1), TRUE)
              IN  /\ m.ok
                  /\ m.n >= 1 /\ m.n <= 12
                  /\ HasPrefixAt(m.rest, 1, <<"-">>)
                  /\ LET d == getnum(Drop(m.rest, 1), TRUE)
                     IN  /\ d.ok
                         /\ d.rest = <<>>
                         /\ d.n >= 1 /\ d.n <= daysIn(m.n, year)

\* the hour of layout "15": time.Parse reads it with getnum(value, false),
\* so one digit is enough
ParseHour(s) == getnum(s, FALSE)

\* time.Parse("15:04", s) succeeds: an hour below 24, ":", a two-digit
\* minute below 60, and no text after it
ParseTimeOK(s) ==
    LET h == ParseHour(s)
    IN  /\ h.ok
        /\ h.n < 24
        /\ HasPrefixAt(h.rest, 1, <<":">>)
        /\ LET m == getnum(Drop(h.rest, 1), TRUE)
           IN  m.ok /\ m.n < 60 /\ m.rest = <<>>

(***************************************************************************)
(* validateReceipt                                                         *)
(***************************************************************************)
\* ^[\w\s\-&]+$
retailerPattern(s) == s # <<>> /\ AllIn(s, WordChars \cup SpaceChars \cup {"-", "&"})

\* ^\d+\.\d{2}$
totalPricePattern(s) ==
    /\ Len(s) >= 4
    /\ AllIn(SubSeq(s, 1, Len(s) - 3), Digits)
    /\ s[Len(s) - 2] = "."
    /\ s[Len(s) - 1] \in Digits
    /\ s[Len(s)] \in Digits

\* ^[\w\s\-]+$
ShortDescriptionPattern(s) == s # <<>> /\ AllIn(s, WordChars \cup SpaceChars \cup {"-"})

\* the body of the loop over receipt.Items
validItem(item) ==
    /\ ~(item.shortDescription = <<>> \/ item.price = <<>>)
    /\ ShortDescriptionPattern(item.shortDescription)
    /\ totalPricePattern(item.price)

\* TRUE when validateReceipt returns nil; every failure returns the same
\* error, fmt.Errorf("The receipt is invalid.")
validateReceipt(r) ==
    /\ ~(\/ r.retailer = <<>>
         \/ r.purchaseDate = <<>>
         \/ r.purchaseTime = <<>>
         \/ r.total = <<>>
         \/ Len(r.items) = 0)
    /\ retailerPattern(r.retailer)
    /\ ParseDateOK(r.purchaseDate)
    /\ ParseTimeOK(r.purchaseTime)
    /\ totalPricePattern(r.total)
    /\ \A i \in 1..Len(r.items) : validItem(r.items[i])

(***************************************************************************)
(* strconv.ParseFloat(s, 64) on the strings validateReceipt lets through   *)
(* (digits "." two digits), and math.Mod / math.Ceil on its result.        *)
(*                                                                         *)
(* A float64 has 53 significant bits.  For a value in [2^e, 2^(e+1)) the   *)
(* representable numbers are the multiples of 2^(e-52), and ParseFloat     *)
(* returns the nearest one (ties to the even mantissa).  The parsed value  *)
(* is kept as  int + num/unit :                                            *)
(*   - integer part below 2^46: the spacing is at most 2^-7, finer than    *)
(*     the hundredths of the input, and the fraction is kept in            *)
(*     hundredths (unit 100);                                              *)
(*   - integer part in [2^46, 2^53): the fraction is rounded to the        *)
(*     52-e fraction bits that are left (unit 2^(52-e));                   *)
(*   - integer part of 2^53 and more: the value is a whole number.         *)
(***************************************************************************)
Pow2Digits ==
    <<<<"7", "0", "3", "6", "8", "7", "4", "4", "1", "7", "7", "6", "6", "4">>,     \* 2^46
      <<"1", "4", "0", "7", "3", "7", "4", "8", "8", "3", "5", "5", "3", "2", "8">>,    \* 2^47
      <<"2", "8", "1", "4", "7", "4", "9", "7", "6", "7", "1", "0", "6", "5", "6">>,    \* 2^48
      <<"5", "6", "2", "9", "4", "9", "9", "5", "3", "4", "2", "1", "3", "1", "2">>,    \* 2^49
      <<"1", "1", "2", "5", "8", "9", "9", "9", "0", "6", "8", "4", "2", "6", "2", "4">>,   \* 2^50
      <<"2", "2", "5", "1", "7", "9", "9", "8", "1", "3", "6", "8", "5", "2", "4", "8">>,   \* 2^51
      <<"4", "5", "0", "3", "5", "9", "9", "6", "2", "7", "3", "7", "0", "4", "9", "6">>,   \* 2^52
      <<"9", "0", "0", "7", "1", "9", "9", "2", "5", "4", "7", "4", "0", "9", "9", "2">>>>  \* 2^53

RECURSIVE StripZeros(_)
StripZeros(s) ==
    IF Len(s) > 1 /\ s[1] = "0" THEN StripZeros(Drop(s, 1)) ELSE s

\* a < b for decimal numerals without leading zeros
DigitsLess(a, b) ==
    \/ Len(a) < Len(b)
    \/ /\ Len(a) = Len(b)
       /\ \E i \in 1..Len(a) :
              /\ DigitVal(a[i]) < DigitVal(b[i])
              /\ \A k \in 1..(i - 1) : a[k] = b[k]

\* number of fraction bits of the float64 nearest to a value with integer
\* part ip: 7 stands for "7 or more", 0 for "none"
FracBits(ip) ==
    IF DigitsLess(ip, Pow2Digits[1]) THEN 7
    ELSE IF \E k \in 2..8 : DigitsLess(ip, Pow2Digits[k])
         THEN 8 - (CHOOSE k \in 2..8 : /\ DigitsLess(ip, Pow2Digits[k])
                                       /\ ~DigitsLess(ip, Pow2Digits[k - 1]))
    ELSE 0

Pow2(n) == IF n = 0 THEN 1 ELSE IF n = 1 THEN 2 ELSE IF n = 2 THEN 4
           ELSE IF n = 3 THEN 8 ELSE IF n = 4 THEN 16 ELSE IF n = 5 THEN 32
           ELSE 64

\* round f/100 to a multiple of 1/unit, ties to the even mantissa; ipOdd is
\* the parity of the integer part, which decides a tie when unit = 1
RoundFrac(f, unit, ipOdd) ==
    LET n == f * unit
        q == n \div 100
        r == n % 100
        odd(x) == IF unit = 1 THEN (x % 2 = 1) # ipOdd ELSE x % 2 = 1
    IN  IF 2 * r < 100 THEN q
        ELSE IF 2 * r > 100 THEN q + 1
        ELSE IF odd(q) THEN q + 1 ELSE q

ParseFloat(s) ==
    LET ip == StripZeros(SubSeq(s, 1, Len(s) - 3))
        f == 10 * DigitVal(s[Len(s) - 1]) + DigitVal(s[Len(s)])
        bits == FracBits(ip)
    IN  IF bits = 7 THEN [int |-> ip, carry |-> 0, num |-> f, unit |-> 100]
        ELSE LET unit == Pow2(bits)
                 ipOdd == DigitVal(ip[Len(ip)]) % 2 = 1
                 q == IF DigitsLess(ip, Pow2Digits[8])
                      THEN RoundFrac(f, unit, ipOdd) ELSE 0
             IN  IF q = unit
                 THEN [int |-> ip, carry |-> 1, num |-> 0, unit |-> unit]
                 ELSE [int |-> ip, carry |-> 0, num |-> q, unit |-> unit]

\* math.Mod(x, 1) == 0
ModOneIsZero(x) == x.num = 0

\* math.Mod(x, 0.25) == 0
ModQuarterIsZero(x) == (4 * x.num) % x.unit = 0

\* int(math.Ceil(x * 0.2)) for x below 2^31/100, where the float64 product
\* is within 2^-40 of the exact fifth, and the exact fifth of a number of
\* hundredths is whole or at least 0.002 away from a whole number
CeilFifth(x) ==
    LET hundredths == DigitsToNat(x.int) * 100 + x.num
    IN  (hundredths + 499) \div 500

(***************************************************************************)
(* calculatePoints, rule by rule                                           *)
(***************************************************************************)
\* reg.ReplaceAllString(receipt.Retailer, "") with reg = [^a-zA-Z0-9]
RECURSIVE StripNonAlNum(_)
StripNonAlNum(s) ==
    IF s = <<>> THEN s
    ELSE IF s[1] \in AlNum THEN <<s[1]>> \o StripNonAlNum(Drop(s, 1))
    ELSE StripNonAlNum(Drop(s, 1))

RetailerPoints(r) == Len(StripNonAlNum(r.retailer))

RoundDollarPoints(r) == IF ModOneIsZero(ParseFloat(r.total)) THEN 50 ELSE 0

QuarterPoints(r) == IF ModQuarterIsZero(ParseFloat(r.total)) THEN 25 ELSE 0

PairPoints(r) == (Len(r.items) \div 2) * 5

\* DescriptionPoints without the strings.TrimSpace of line 64
DescriptionPoints_untrimmed(item) ==
    IF Len(item.shortDescription) % 3 = 0
    THEN CeilFifth(ParseFloat(item.price)) ELSE 0

DescriptionPoints(item) ==
    LET description == TrimSpace(item.shortDescription)
    IN  IF Len(description) % 3 = 0 THEN CeilFifth(ParseFloat(item.price)) ELSE 0

OddDayPoints(r) ==
    LET dateParts == Split(r.purchaseDate, "-")
    IN  IF Len(dateParts) = 3 /\ Atoi(dateParts[3]) % 2 # 0 THEN 6 ELSE 0

\* AfternoonPoints with "timeVal > 840" for "timeVal >= 840"
AfternoonPoints_after(r) ==
    LET purchaseTimeParts == Split(r.purchaseTime, ":")
    IN  IF Len(purchaseTimeParts) = 2
        THEN LET timeVal == Atoi(purchaseTimeParts[1]) * 60
                                + Atoi(purchaseTimeParts[2])
             IN  IF timeVal > 840 /\ timeVal < 960 THEN 10 ELSE 0
        ELSE 0

AfternoonPoints(r) ==
    LET purchaseTimeParts == Split(r.purchaseTime, ":")
    IN  IF Len(purchaseTimeParts) = 2
        THEN LET hour == Atoi(purchaseTimeParts[1])
                 minute == Atoi(purchaseTimeParts[2])
                 timeVal == hour * 60 + minute
             IN  IF timeVal >= 840 /\ timeVal < 960 THEN 10 ELSE 0
        ELSE 0

RECURSIVE ItemsPoints(_)
ItemsPoints(items) ==
    IF items = <<>> THEN 0
    ELSE DescriptionPoints(items[1]) + ItemsPoints(Drop(items, 1))

calculatePoints(r) ==
    RetailerPoints(r) + RoundDollarPoints(r) + QuarterPoints(r) + PairPoints(r)
        + ItemsPoints(r.items) + OddDayPoints(r) + AfternoonPoints(r)

(***************************************************************************)
(* Inputs: the receipts that are validated and scored                      *)
(***************************************************************************)
Item(d, p) == [shortDescription |-> d, price |-> p]

Receipt(ret, date, time, items, total) ==
    [retailer |-> ret, purchaseDate |-> date, purchaseTime |-> time,
     items |-> items, total |-> total]

MountainDew == Item(<<"M", "o", "u", "n", "t", "a", "i", "n", " ", "D", "e", "w", " ", "1", "2", "P", "K">>, <<"6", ".", "4", "9">>)
EmilsPizza == Item(<<"E", "m", "i", "l", "s", " ", "C", "h", "e", "e", "s", "e", " ", "P", "i", "z", "z", "a">>, <<"1", "2", ".", "2", "5">>)
Klarbrunn == Item(<<" ", " ", " ", "K", "l", "a", "r", "b", "r", "u", "n", "n", " ", "1", "2", "-", "P", "K", " ", "1", "2", " ", "F", "L", " ", "O", "Z", " ", " ">>, <<"1", "2", ".", "0", "0">>)
BlankItem == Item(<<" ", " ">>, <<"5", ".", "0", "0">>)

ItemInputs ==
    {MountainDew, EmilsPizza, Klarbrunn, BlankItem,
     Item(<<"a", "b", "c">>, <<"0", ".", "0", "1">>),
     Item(<<" ", "a", "b", "\t">>, <<"5", ".", "0", "1">>),
     Item(<<"a", "@", "b">>, <<"1", ".", "0", "0">>),
     Item(<<"a", "b", "c">>, <<"1", ".", "2">>),
     Item(<<>>, <<"1", ".", "0", "0">>),
     Item(<<"G", "a", "t", "o", "r", "a", "d", "e">>, <<>>)}

RetailerInputs ==
    {<<"T", "a", "r", "g", "e", "t">>, <<"M", "&", "M", " ", "C", "o", "r", "n", "e", "r", " ", "M", "a", "r", "k", "e", "t">>, <<"a", "_", "b", "-", "1", " ", "&">>, <<" ", " ">>, <<"T", "a", "r", "@", "g", "e", "t">>, <<>>}

DateInputs ==
    {<<"2", "0", "2", "2", "-", "0", "1", "-", "0", "1">>, <<"2", "0", "2", "2", "-", "0", "1", "-", "0", "2">>, <<"2", "0", "2", "2", "-", "1", "3", "-", "0", "1">>, <<"2", "0", "2", "2", "-", "0", "0", "-", "1", "0">>,
     <<"2", "0", "2", "2", "-", "0", "1", "-", "0", "0">>, <<"2", "0", "2", "2", "-", "0", "4", "-", "3", "1">>, <<"2", "0", "2", "2", "-", "0", "2", "-", "2", "9">>, <<"2", "0", "2", "4", "-", "0", "2", "-", "2", "9">>,
     <<"1", "9", "0", "0", "-", "0", "2", "-", "2", "9">>, <<"2", "0", "0", "0", "-", "0", "2", "-", "2", "9">>, <<"2", "0", "2", "2", "-", "1", "-", "0", "1">>, <<"2", "2", "-", "0", "1", "-", "0", "1">>,
     <<"2", "0", "2", "2", "-", "0", "1", "-", "0", "1", "x">>, <<"2", "0", "2", "2", "/", "0", "1", "/", "0", "1">>, <<"2", "0", "2", "2", "-", "0", "1", "-", "1">>, <<>>}

HourInputs == {<<"0">>, <<"9">>, <<"0", "0">>, <<"0", "9">>, <<"1", "3">>, <<"1", "4">>, <<"1", "5">>, <<"1", "6">>,
               <<"2", "3">>, <<"2", "4">>, <<"2", "5">>}
MinuteInputs == {<<"0", "0">>, <<"0", "1">>, <<"5", "9">>, <<"6", "0">>, <<"5">>}

TimeInputs ==
    {h \o <<":">> \o m : h \in HourInputs, m \in MinuteInputs}
        \cup {<<"1", "4", ":", "0", "0", ":", "0", "0">>, <<"1", "4", "0", "0">>, <<"1", "4", ":", "0", "a">>, <<" ", "1", "4", ":", "0", "0">>, <<"0", "1", "4", ":", "0", "0">>,
              <<"1", "4", "-", "0", "0">>, <<>>}

WholeInputs == {<<"0">>, <<"1", "2">>, <<"3", "5">>, <<"1", "0", "0">>,
                <<"7", "0", "3", "6", "8", "7", "4", "4", "1", "7", "7", "6", "6", "4">>, <<"1", "4", "0", "7", "3", "7", "4", "8", "8", "3", "5", "5", "3", "2", "8">>,
                <<"2", "2", "5", "1", "7", "9", "9", "8", "1", "3", "6", "8", "5", "2", "4", "8">>, <<"4", "5", "0", "3", "5", "9", "9", "6", "2", "7", "3", "7", "0", "4", "9", "7">>,
                <<"9", "0", "0", "7", "1", "9", "9", "2", "5", "4", "7", "4", "0", "9", "9", "3">>}
CentInputs == {<<"0", "0">>, <<"0", "1">>, <<"2", "5">>, <<"3", "5">>, <<"5", "0">>, <<"7", "5">>, <<"9", "9">>}

TotalInputs ==
    {w \o <<".">> \o c : w \in WholeInputs, c \in CentInputs}
        \cup {<<"1", "2", ".", "5">>, <<"1", "2", ".", "5", "0", "0">>, <<"1", "2">>, <<".", "5", "0">>, <<"-", "1", ".", "0", "0">>, <<"1", "e", "2", ".", "0", "0">>,
              <<"1", "2", ",", "0", "0">>, <<>>}

RECURSIVE SeqsUpTo(_, _)
SeqsUpTo(S, n) ==
    IF n = 0 THEN {<<>>}
    ELSE LET shorter == SeqsUpTo(S, n - 1)
         IN  shorter \cup {Append(s, x) : s \in shorter, x \in S}

\* the example receipt of the specification
TargetReceipt ==
    Receipt(<<"T", "a", "r", "g", "e", "t">>, <<"2", "0", "2", "2", "-", "0", "1", "-", "0", "1">>, <<"1", "3", ":", "0", "1">>,
            <<MountainDew, EmilsPizza,
              Item(<<"K", "n", "o", "r", "r", " ", "C", "r", "e", "a", "m", "y", " ", "C", "h", "i", "c", "k", "e", "n">>, <<"1", ".", "2", "6">>),
              Item(<<"D", "o", "r", "i", "t", "o", "s", " ", "N", "a", "c", "h", "o", " ", "C", "h", "e", "e", "s", "e">>, <<"3", ".", "3", "5">>),
              Klarbrunn>>,
            <<"3", "5", ".", "3", "5">>)

BaseReceipt ==
    Receipt(<<"M", "&", "M", " ", "C", "o", "r", "n", "e", "r", " ", "M", "a", "r", "k", "e", "t">>, <<"2", "0", "2", "2", "-", "0", "3", "-", "2", "0">>, <<"1", "4", ":", "3", "3">>,
            <<Item(<<"G", "a", "t", "o", "r", "a", "d", "e">>, <<"2", ".", "2", "5">>)>>, <<"9", ".", "0", "0">>)

ReceiptInputs ==
    {TargetReceipt}
        \cup {[BaseReceipt EXCEPT !.retailer = x] : x \in RetailerInputs}
        \cup {[BaseReceipt EXCEPT !.purchaseDate = x] : x \in DateInputs}
        \cup {[BaseReceipt EXCEPT !.purchaseTime = t, !.total = x] :
                  t \in TimeInputs, x \in TotalInputs}
        \cup {[BaseReceipt EXCEPT !.items = x] : x \in SeqsUpTo(ItemInputs, MaxItems)}

(***************************************************************************)
(* ScoreSpec: one run of validateReceipt followed by calculatePoints, as   *)
(* processReceiptHandler calls them, on every input receipt                *)
(***************************************************************************)
Validate ==
    /\ ph = "validate"
    /\ ph' = IF validateReceipt(rcpt) THEN "retailer" ELSE "rejected"
    /\ UNCHANGED <<rcpt, acc, idx>>
    /\ UNCHANGED svcVars

ScoreRetailer ==
    /\ ph = "retailer"
    /\ acc' = acc + RetailerPoints(rcpt)
    /\ ph' = "round"
    /\ UNCHANGED <<rcpt, idx>>
    /\ UNCHANGED svcVars

ScoreRoundDollar ==
    /\ ph = "round"
    /\ acc' = acc + RoundDollarPoints(rcpt)
    /\ ph' = "quarter"
    /\ UNCHANGED <<rcpt, idx>>
    /\ UNCHANGED svcVars

ScoreQuarter ==
    /\ ph = "quarter"
    /\ acc' = acc + QuarterPoints(rcpt)
    /\ ph' = "pairs"
    /\ UNCHANGED <<rcpt, idx>>
    /\ UNCHANGED svcVars

ScorePairs ==
    /\ ph = "pairs"
    /\ acc' = acc + PairPoints(rcpt)
    /\ ph' = "items"
    /\ idx' = 1
    /\ UNCHANGED rcpt
    /\ UNCHANGED svcVars

ScoreItem ==
    /\ ph = "items"
    /\ idx <= Len(rcpt.items)
    /\ acc' = acc + DescriptionPoints(rcpt.items[idx])
    /\ idx' = idx + 1
    /\ ph' = IF idx = Len(rcpt.items) THEN "day" ELSE "items"
    /\ UNCHANGED rcpt
    /\ UNCHANGED svcVars

ScoreOddDay ==
    /\ ph = "day"
    /\ acc' = acc + OddDayPoints(rcpt)
    /\ ph' = "time"
    /\ UNCHANGED <<rcpt, idx>>
    /\ UNCHANGED svcVars

ScoreAfternoon ==
    /\ ph = "time"
    /\ acc' = acc + AfternoonPoints(rcpt)
    /\ ph' = "done"
    /\ UNCHANGED <<rcpt, idx>>
    /\ UNCHANGED svcVars

(***************************************************************************)
(* extractUUID                                                             *)
(***************************************************************************)
ReceiptsLit == <<"/", "r", "e", "c", "e", "i", "p", "t", "s", "/">>
PointsLit == <<"/", "p", "o", "i", "n", "t", "s">>

\* length of the longest run of [a-f0-9\-] that starts at position j
RECURSIVE HexRun(_, _)
HexRun(url, j) ==
    IF j <= Len(url) /\ url[j] \in HexDash THEN 1 + HexRun(url, j + 1) ELSE 0

\* the pattern /receipts/([a-f0-9\-]+)/points matches at position i; "/" is
\* not in the class, so the group is the whole run
MatchAt(url, i) ==
    /\ HasPrefixAt(url, i, ReceiptsLit)
    /\ LET j == i + Len(ReceiptsLit)
           n == HexRun(url, j)
       IN  n >= 1 /\ HasPrefixAt(url, j + n, PointsLit)

\* extractUUID with the class [a-f0-9\-] widened to every character but "/"
extractUUID_anyChar(url) ==
    LET j == Len(ReceiptsLit) + 1
        n == CHOOSE k \in 0..Len(url) :
                 /\ \A m \in j..(j + k - 1) : m <= Len(url) /\ url[m] # "/"
                 /\ ~(j + k <= Len(url) /\ url[j + k] # "/")
    IN  IF HasPrefixAt(url, 1, ReceiptsLit) /\ n >= 1
               /\ HasPrefixAt(url, j + n, PointsLit)
        THEN SubSeq(url, j, j + n - 1)
        ELSE <<>>

\* re.FindStringSubmatch(url): group 1 of the leftmost match, "" without one
extractUUID(url) ==
    IF \E i \in 1..Len(url) : MatchAt(url, i)
    THEN LET i == CHOOSE k \in 1..Len(url) :
                      MatchAt(url, k) /\ \A m \in 1..(k - 1) : ~MatchAt(url, m)
             j == i + Len(ReceiptsLit)
         IN  SubSeq(url, j, j + HexRun(url, j) - 1)
    ELSE <<>>

(***************************************************************************)
(* The service: requests, handlers, the maps and the mutex                 *)
(***************************************************************************)
Requests == 1..MaxReq

\* uuid.New().String() returns one of these, never one it returned before
UUIDs == {<<"a", "1", "-", "f">>, <<"0", "b", "-", "2">>, <<"c", "-", "9", "3">>}

PointsPath(id) == ReceiptsLit \o id \o PointsLit

\* paths the mux routes to getPointsHandler (prefix "/receipts/")
PathInputs ==
    {PointsPath(u) : u \in UUIDs}
        \cup {PointsPath(<<"A", "1", "-", "F">>), <<"/", "r", "e", "c", "e", "i", "p", "t", "s", "/", "/", "p", "o", "i", "n", "t", "s">>}

InvalidReceipt == [BaseReceipt EXCEPT !.purchaseTime = <<"2", "5", ":", "0", "0">>]

\* "var receipt Receipt" before json.Decode fills it
ZeroReceipt == Receipt(<<>>, <<>>, <<>>, <<>>, <<>>)

\* request bodies: json set when json.Decode succeeds, then with the receipt
\* it decodes to
BodyInputs ==
    {[json |-> FALSE, receipt |-> ZeroReceipt],
     [json |-> TRUE, receipt |-> InvalidReceipt],
     [json |-> TRUE, receipt |-> BaseReceipt],
     [json |-> TRUE, receipt |-> [BaseReceipt EXCEPT !.total = <<"9", ".", "0", "1">>]]}

NoInput == [kind |-> "none", body |-> [json |-> FALSE, receipt |-> ZeroReceipt],
            path |-> <<>>]
NoResp == [code |-> 0, msg |-> "", id |-> <<>>, points |-> 0]
NotLooked == [exists |-> FALSE, p |-> 0]

\* http.Error(w, "The receipt is invalid.", http.StatusBadRequest)
Invalid400 == [code |-> 400, msg |-> "The receipt is invalid.", id |-> <<>>,
               points |-> 0]
\* http.Error(w, "No receipt found for that ID.", http.StatusNotFound)
NotFound404 == [code |-> 404, msg |-> "No receipt found for that ID.",
                id |-> <<>>, points |-> 0]
\* json.NewEncoder(w).Encode(ResponseID{ID: id})
IdResponse(id) == [code |-> 200, msg |-> "", id |-> id, points |-> 0]
\* json.NewEncoder(w).Encode(ResponsePoints{Points: p})
PointsResponse(p) == [code |-> 200, msg |-> "", id |-> <<>>, points |-> p]

\* m[k] = v
MapPut(m, k, v) == [x \in DOMAIN m \cup {k} |-> IF x = k THEN v ELSE m[x]]

\* v, ok := m[k]
MapGet(m, k) ==
    IF k \in DOMAIN m THEN [exists |-> TRUE, p |-> m[k]] ELSE NotLooked

\* ids uuid.New() has handed out
Issued == {rid[q] : q \in {r \in Requests : input[r].kind = "process"
                                             /\ rid[r] # <<>>}}

\* goroutines inside the unlocked "points[id] = ..." of processReceiptHandler
Writers == {q \in Requests : pc[q] = "writingPoints"}

\* processReceiptHandler, lines 159-168: the body does not decode, or the
\* receipt does not validate
RejectReceipt(p) ==
    /\ ~crashed
    /\ pc[p] = "idle"
    /\ \E b \in BodyInputs :
           /\ ~b.json \/ ~validateReceipt(b.receipt)
           /\ input' = [input EXCEPT ![p] = [NoInput EXCEPT !.kind = "process",
                                                            !.body = b]]
    /\ resp' = [resp EXCEPT ![p] = Invalid400]
    /\ pc' = [pc EXCEPT ![p] = "done"]
    /\ UNCHANGED <<points, receipts, mutex, rid, score, found, raced, crashed>>
    /\ UNCHANGED runVars

\* processReceiptHandler, lines 159-171: decoded, validated, id generated and
\* calculatePoints(receipt), the value line 171 is about to store, evaluated
AcceptReceipt(p) ==
    /\ ~crashed
    /\ pc[p] = "idle"
    /\ \E b \in BodyInputs, id \in UUIDs \ Issued :
           /\ b.json /\ validateReceipt(b.receipt)
           /\ input' = [input EXCEPT ![p] = [NoInput EXCEPT !.kind = "process",
                                                            !.body = b]]
           /\ rid' = [rid EXCEPT ![p] = id]
           /\ score' = [score EXCEPT ![p] = calculatePoints(b.receipt)]
    /\ pc' = [pc EXCEPT ![p] = "storePoints"]
    /\ UNCHANGED <<points, receipts, mutex, found, resp, raced, crashed>>
    /\ UNCHANGED runVars

\* line 171, "points[id] = calculatePoints(receipt)", begins: the map write
\* is made without the mutex, so it can overlap another goroutine's write
BeginStorePoints(p) ==
    /\ ~crashed
    /\ pc[p] = "storePoints"
    /\ pc' = [pc EXCEPT ![p] = "writingPoints"]
    /\ raced' = IF Writers # {} THEN raced \cup Writers \cup {p} ELSE raced
    /\ UNCHANGED <<points, receipts, mutex, input, rid, score, found, resp, crashed>>
    /\ UNCHANGED runVars

\* line 171 ends.  A write that overlapped no other access stores the entry.
\* One that did is a data race on a Go map: the entry may be stored, the
\* map may be left without it, or the runtime stops the process with
\* "fatal error: concurrent map writes".
EndStorePoints(p) ==
    /\ ~crashed
    /\ pc[p] = "writingPoints"
    /\ pc' = [pc EXCEPT ![p] = "lock"]
    /\ \/ /\ points' = MapPut(points, rid[p], score[p])
          /\ UNCHANGED crashed
       \/ /\ p \in raced
          /\ UNCHANGED <<points, crashed>>
       \/ /\ p \in raced
          /\ crashed' = TRUE
          /\ UNCHANGED points
    /\ UNCHANGED <<receipts, mutex, input, rid, score, found, resp, raced>>
    /\ UNCHANGED runVars

\* line 172, mutex.Lock()
LockStore(p) ==
    /\ ~crashed
    /\ pc[p] = "lock"
    /\ mutex = 0
    /\ mutex' = p
    /\ pc' = [pc EXCEPT ![p] = "storeReceipt"]
    /\ UNCHANGED <<points, receipts, input, rid, score, found, resp, raced, crashed>>
    /\ UNCHANGED runVars

\* line 173, receipts[id] = receipt
StoreReceipt(p) ==
    /\ ~crashed
    /\ pc[p] = "storeReceipt"
    /\ receipts' = MapPut(receipts, rid[p], input[p].body.receipt)
    /\ pc' = [pc EXCEPT ![p] = "unlock"]
    /\ UNCHANGED <<points, mutex, input, rid, score, found, resp, raced, crashed>>
    /\ UNCHANGED runVars

\* lines 174-176, mutex.Unlock() and the response {"id": id}
UnlockRespond(p) ==
    /\ ~crashed
    /\ pc[p] = "unlock"
    /\ mutex' = 0
    /\ resp' = [resp EXCEPT ![p] = IdResponse(rid[p])]
    /\ pc' = [pc EXCEPT ![p] = "done"]
    /\ UNCHANGED <<points, receipts, input, rid, score, found, raced, crashed>>
    /\ UNCHANGED runVars

\* getPointsHandler, line 143: id := extractUUID(r.URL.Path)
ReceiveGet(p) ==
    /\ ~crashed
    /\ pc[p] = "idle"
    /\ \E path \in PathInputs :
           /\ input' = [input EXCEPT ![p] = [NoInput EXCEPT !.kind = "get",
                                                            !.path = path]]
           /\ rid' = [rid EXCEPT ![p] = extractUUID(path)]
    /\ pc' = [pc EXCEPT ![p] = "glock"]
    /\ UNCHANGED <<points, receipts, mutex, score, found, resp, raced, crashed>>
    /\ UNCHANGED runVars

\* line 144, mutex.Lock()
LockRead(p) ==
    /\ ~crashed
    /\ pc[p] = "glock"
    /\ mutex = 0
    /\ mutex' = p
    /\ pc' = [pc EXCEPT ![p] = "read"]
    /\ UNCHANGED <<points, receipts, input, rid, score, found, resp, raced, crashed>>
    /\ UNCHANGED runVars

\* line 145, "p, exists := points[id]".  The reader holds the mutex, the
\* writer of line 171 does not: a read during such a write is a data race,
\* after which the read may see the map as it was, miss an entry, or the
\* runtime stops the process with "concurrent map read and map write".
ReadPoints(p) ==
    /\ ~crashed
    /\ pc[p] = "read"
    /\ pc' = [pc EXCEPT ![p] = "gunlock"]
    /\ raced' = raced \cup Writers
    /\ \/ /\ found' = [found EXCEPT ![p] = MapGet(points, rid[p])]
          /\ UNCHANGED crashed
       \/ /\ Writers # {}
          /\ found' = [found EXCEPT ![p] = NotLooked]
          /\ UNCHANGED crashed
       \/ /\ Writers # {}
          /\ crashed' = TRUE
          /\ UNCHANGED found
    /\ UNCHANGED <<points, receipts, mutex, input, rid, score, resp>>
    /\ UNCHANGED runVars

\* lines 146-154, mutex.Unlock() and the response: 404 or {"points": p}
UnlockAnswer(p) ==
    /\ ~crashed
    /\ pc[p] = "gunlock"
    /\ mutex' = 0
    /\ resp' = [resp EXCEPT ![p] = IF ~found[p].exists THEN NotFound404
                                   ELSE PointsResponse(found[p].p)]
    /\ pc' = [pc EXCEPT ![p] = "done"]
    /\ UNCHANGED <<points, receipts, input, rid, score, found, raced, crashed>>
    /\ UNCHANGED runVars

HandlerStep(p) ==
    \/ BeginStorePoints(p)
    \/ EndStorePoints(p)
    \/ LockStore(p)
    \/ StoreReceipt(p)
    \/ UnlockRespond(p)
    \/ LockRead(p)
    \/ ReadPoints(p)
    \/ UnlockAnswer(p)

(***************************************************************************)
(* Specifications                                                          *)
(***************************************************************************)
SvcInit ==
    /\ points = <<>>
    /\ receipts = <<>>
    /\ mutex = 0
    /\ pc = [p \in Requests |-> "idle"]
    /\ input = [p \in Requests |-> NoInput]
    /\ rid = [p \in Requests |-> <<>>]
    /\ score = [p \in Requests |-> 0]
    /\ found = [p \in Requests |-> NotLooked]
    /\ resp = [p \in Requests |-> NoResp]
    /\ raced = {}
    /\ crashed = FALSE

Init ==
    /\ SvcInit
    /\ rcpt = ZeroReceipt
    /\ ph = "off"
    /\ acc = 0
    /\ idx = 0

Next ==
    \E p \in Requests :
        \/ RejectReceipt(p)
        \/ AcceptReceipt(p)
        \/ ReceiveGet(p)
        \/ BeginStorePoints(p)
        \/ EndStorePoints(p)
        \/ LockStore(p)
        \/ StoreReceipt(p)
        \/ UnlockRespond(p)
        \/ LockRead(p)
        \/ ReadPoints(p)
        \/ UnlockAnswer(p)

\* the service with any interleaving of the handlers' steps
Spec == Init /\ [][Next]_vars

\* net/http runs every handler in a goroutine of its own and the Go
\* scheduler runs every runnable goroutine; a goroutine blocked in
\* mutex.Lock() is handed the lock once it has waited 1ms (sync.Mutex
\* starvation mode).  So a handler whose next step is possible again and
\* again takes it: strong fairness of each handler's steps.
Fairness == \A p \in Requests : SF_vars(HandlerStep(p))

FairSpec == Init /\ [][Next]_vars /\ Fairness

ScoreInit ==
    /\ SvcInit
    /\ rcpt \in ReceiptInputs
    /\ ph = "validate"
    /\ acc = 0
    /\ idx = 0

ScoreNext ==
    \/ Validate
    \/ ScoreRetailer
    \/ ScoreRoundDollar
    \/ ScoreQuarter
    \/ ScorePairs
    \/ ScoreItem
    \/ ScoreOddDay
    \/ ScoreAfternoon

\* validateReceipt then calculatePoints on each input receipt
ScoreSpec == ScoreInit /\ [][ScoreNext]_vars

(***************************************************************************)
(* Properties                                                              *)
(***************************************************************************)
Returned(p) == input[p].kind = "process" /\ resp[p].code = 200

IsGet(p) == input[p].kind = "get"

\* C1: in every reachable state the identifiers of the points map are the
\* identifiers of the receipts map.
C1_SameIdentifiers == DOMAIN points = DOMAIN receipts

\* C2: a handler that reads or writes one of the two maps holds the mutex,
\* and no write of a map overlaps another access of it.
C2_StoreAccessUnderMutex ==
    /\ \A p \in Requests :
           pc[p] \in {"writingPoints", "storeReceipt", "read"} => mutex = p
    /\ raced = {}

\* C3: once processReceiptHandler has returned id for receipt r, every later
\* lookup of id finds exactly calculatePoints(r), and no stored entry is ever
\* changed or removed.
C3_RoundTrip ==
    /\ [](\A p \in Requests :
              Returned(p) =>
                  MapGet(points, rid[p]) =
                      [exists |-> TRUE,
                       p |-> calculatePoints(input[p].body.receipt)])
    /\ [][/\ \A g \in Requests, p \in Requests :
                  (/\ pc[g] = "read" /\ pc'[g] = "gunlock"
                   /\ Returned(p) /\ rid[p] = rid[g])
                      => found'[g] =
                             [exists |-> TRUE,
                              p |-> calculatePoints(input[p].body.receipt)]
           /\ \A i \in DOMAIN points :
                  i \in DOMAIN points' /\ points'[i] = points[i]
          ]_vars

\* C4: a rejected request answers 400 "The receipt is invalid." and leaves
\* both maps as they were; an accepted one has its identifier in both maps
\* when it answers; and no lookup sees an identifier whose receipt is not
\* stored.
C4_NoPartialSuccess ==
    [][/\ \A p \in Requests :
              (pc[p] = "idle" /\ pc'[p] = "done")
                  => /\ resp'[p] = Invalid400
                     /\ points' = points
                     /\ receipts' = receipts
       /\ \A p \in Requests :
              (pc[p] = "unlock" /\ pc'[p] = "done")
                  => /\ rid[p] \in DOMAIN points'
                     /\ rid[p] \in DOMAIN receipts'
                     /\ resp'[p] = IdResponse(rid[p])
       /\ \A g \in Requests :
              (pc[g] = "read" /\ pc'[g] = "gunlock" /\ found'[g].exists)
                  => rid[g] \in DOMAIN receipts
      ]_vars

\* paths of PathInputs that do not match /receipts/([a-f0-9\-]+)/points
NonMatchingPaths == {PointsPath(<<"A", "1", "-", "F">>), <<"/", "r", "e", "c", "e", "i", "p", "t", "s", "/", "/", "p", "o", "i", "n", "t", "s">>}

\* C5: a lookup of an identifier that no accepted request was assigned finds
\* nothing and answers 404 "No receipt found for that ID."; a path that does
\* not match the pattern gives the empty identifier, which is never a key of
\* the points map.
C5_UnknownIdNotFound ==
    /\ <<>> \notin DOMAIN points
    /\ \A g \in Requests :
           /\ (IsGet(g) /\ input[g].path \in NonMatchingPaths) => rid[g] = <<>>
           /\ (IsGet(g) /\ rid[g] \notin Issued) => ~found[g].exists
           /\ (IsGet(g) /\ rid[g] \notin Issued /\ pc[g] = "done")
                  => resp[g] = NotFound404

\* C5 witness: with an entry in the store, a lookup by a non-matching path
\* has answered 404
C5_Witness ==
    \E g \in Requests :
        /\ IsGet(g) /\ pc[g] = "done"
        /\ input[g].path = PointsPath(<<"A", "1", "-", "F">>)
        /\ resp[g] = NotFound404
        /\ DOMAIN points # {}

\* ---- the receipt grammar as the specification states it ----
TwoDigitsAt(s, i) == isDigit(s, i) /\ isDigit(s, i + 1)

NumAt(s, i) == 10 * DigitVal(s[i]) + DigitVal(s[i + 1])

DaysOfMonth(y, m) ==
    CASE m \in {1, 3, 5, 7, 8, 10, 12} -> 31
      [] m \in {4, 6, 9, 11} -> 30
      [] OTHER -> IF (y % 400 = 0) \/ (y % 4 = 0 /\ y % 100 # 0) THEN 29 ELSE 28

\* exactly YYYY-MM-DD with the month and the day in range
IsCalendarDate(s) ==
    /\ Len(s) = 10
    /\ \A i \in {1, 2, 3, 4, 6, 7, 9, 10} : s[i] \in Digits
    /\ s[5] = "-" /\ s[8] = "-"
    /\ NumAt(s, 6) \in 1..12
    /\ NumAt(s, 9) >= 1
    /\ NumAt(s, 9) <= DaysOfMonth(100 * NumAt(s, 1) + NumAt(s, 3), NumAt(s, 6))

\* exactly HH:MM, hours 00-23 and minutes 00-59
IsClockTime(s) ==
    /\ Len(s) = 5
    /\ TwoDigitsAt(s, 1) /\ s[3] = ":" /\ TwoDigitsAt(s, 4)
    /\ NumAt(s, 1) <= 23
    /\ NumAt(s, 4) <= 59

\* one or more digits, a dot, exactly two digits
IsAmount(s) ==
    \E n \in 1..Len(s) :
        /\ Len(s) = n + 3
        /\ \A i \in 1..n : s[i] \in Digits
        /\ s[n + 1] = "."
        /\ TwoDigitsAt(s, n + 2)

\* none of the violations C6 lists
NoViolation(r) ==
    /\ r.retailer # <<>> /\ r.purchaseDate # <<>> /\ r.purchaseTime # <<>>
    /\ r.total # <<>>
    /\ r.items # <<>>
    /\ \A i \in 1..Len(r.retailer) :
           r.retailer[i] \in WordChars \cup SpaceChars \cup {"-", "&"}
    /\ IsCalendarDate(r.purchaseDate)
    /\ IsClockTime(r.purchaseTime)
    /\ IsAmount(r.total)
    /\ \A i \in 1..Len(r.items) :
           /\ r.items[i].shortDescription # <<>>
           /\ IsAmount(r.items[i].price)

\* C6: validateReceipt rejects every receipt with a missing or empty field,
\* a retailer with a disallowed character, a purchaseDate that is not exactly
\* YYYY-MM-DD in range, a purchaseTime that is not exactly two-digit HH:MM in
\* range, a total or price that is not digits "." two digits, or no items;
\* it accepts only when none of these is present.
C6_ValidateRejects ==
    ph \notin {"off", "validate", "rejected"} => NoViolation(rcpt)

\* minutes since midnight of an accepted purchaseTime
ClockMinutes(t) ==
    60 * DigitsToNat(SubSeq(t, 1, Len(t) - 3)) + NumAt(t, Len(t) - 1)

\* C7: for an accepted receipt calculatePoints adds the 10 afternoon points
\* exactly when hour*60+minute of purchaseTime is in [840, 960): 14:00 and
\* 15:59 qualify, 13:59 and 16:00 do not.
C7_AfternoonWindow ==
    [][ph = "time" =>
          /\ acc' - acc = IF ClockMinutes(rcpt.purchaseTime) \in 840..959
                          THEN 10 ELSE 0
          /\ rcpt.purchaseTime \in {<<"1", "4", ":", "0", "0">>, <<"1", "5", ":", "5", "9">>} => acc' = acc + 10
          /\ rcpt.purchaseTime \in {<<"1", "3", ":", "5", "9">>, <<"1", "6", ":", "0", "0">>} => acc' = acc
      ]_vars

\* C7 witness: a receipt bought at 15:59 has been scored, with the 10 points
C7_Witness ==
    /\ ph = "done"
    /\ rcpt.purchaseTime = <<"1", "5", ":", "5", "9">>
    /\ rcpt.total = <<"1", "2", ".", "0", "1">>
    /\ acc = RetailerPoints(rcpt) + 10

Cents(s) == SubSeq(s, Len(s) - 1, Len(s))

\* C8: for every validated total calculatePoints adds 50 exactly when the
\* two decimals are 00, and adds 25 exactly when they are 00, 25, 50 or 75.
C8_RoundAndQuarter ==
    [][/\ ph = "round" =>
              acc' - acc = IF Cents(rcpt.total) = <<"0", "0">> THEN 50 ELSE 0
       /\ ph = "quarter" =>
              acc' - acc = IF Cents(rcpt.total) \in {<<"0", "0">>, <<"2", "5">>, <<"5", "0">>, <<"7", "5">>}
                           THEN 25 ELSE 0
      ]_vars

\* length of s without its leading and trailing whitespace
CoreLen(s) ==
    LET solid == {i \in 1..Len(s) : s[i] \notin SpaceChars}
    IN  IF solid = {} THEN 0
        ELSE (CHOOSE i \in solid : \A k \in solid : k <= i)
                 - (CHOOSE i \in solid : \A k \in solid : i <= k) + 1

\* the price in hundredths: the numeral without its dot
Hundredths(price) ==
    DigitsToNat(SubSeq(price, 1, Len(price) - 3) \o Cents(price))

\* the least whole number that is at least a fifth of the price
FifthRoundedUp(price) ==
    CHOOSE n \in 0..Hundredths(price) :
        /\ 500 * n >= Hundredths(price)
        /\ \A m \in 0..(n - 1) : 500 * m < Hundredths(price)

C10_EveryRequestAnswered ==
    /\ \A p \in Requests : (pc[p] # "idle") ~> (pc[p] = "done")
    /\ [](\A p \in Requests : pc[p] = "done" => mutex # p)

====
